---------------------------- MODULE Spec2Model ----------------------------
(***************************************************************************)
(* A model of math_parser: symbols.py (the Symbol class hierarchy, the     *)
(* class-level alias lists, construction, evaluation, clean_string, the    *)
(* ALL_SYMBOLS registry) and the parser.py driver's use of it.             *)
(*                                                                         *)
(* A Python str is a sequence of characters, each a TLA+ string (a         *)
(* non-ASCII character is written by its code point, "U+00D7"), so that    *)
(* replace, strip and rstrip are computed as Python computes them.  None   *)
(* is NoneVal where a str is expected and [t |-> "None"] where a number    *)
(* is expected.                                                            *)
(***************************************************************************)
EXTENDS Integers, Sequences, FiniteSets, TLC

VARIABLES
    symbol_list,   \* the class attribute symbol_list of every class that owns one
    ALL_SYMBOLS,   \* the module-level registry dict
    heap,          \* the instances constructed so far, in construction order
    call           \* the last call made by the driver and what it returned or raised

vars == <<symbol_list, ALL_SYMBOLS, heap, call>>

----------------------------------------------------------------------------
(* Bounds of the model. *)

\* instances the driver constructs in Spec
MaxInst == 3
\* bound values of a variable range over -MaxVal .. MaxVal
MaxVal == 1
\* length of the text handed to clean_string
MaxLen == 6
\* a float that is an irrational root is kept as a multiple of 1/FloatGrid
FloatGrid == 4

----------------------------------------------------------------------------
(* Python values that stand for "no str". *)

NoneVal == <<"None">>

----------------------------------------------------------------------------
(* The class hierarchy of symbols.py. *)

BinaryClasses ==
    {"Add", "Subtract", "Multiply", "Divide", "Modulus", "Power", "Equal", "NotEqual"}

UnaryClasses == {"Sqrt", "Ceil", "Floor"}

ArithClasses ==
    {"Add", "Subtract", "Multiply", "Divide", "Modulus", "Power", "Sqrt", "Ceil", "Floor"}

OperatorClasses == BinaryClasses \cup UnaryClasses

Classes ==
    {"Symbol", "Constant", "Variable", "Operator", "SymbolGroup"} \cup OperatorClasses

\* cls.__subclasses__(): the direct subclasses, in definition order
Subclasses(cls) ==
    CASE cls = "Symbol" -> <<"Constant", "Variable", "Operator", "SymbolGroup">>
      [] cls = "Operator" ->
            <<"Add", "Subtract", "Multiply", "Divide", "Modulus", "Power",
              "Sqrt", "Ceil", "Floor", "Equal", "NotEqual">>
      [] OTHER -> <<>>

\* the base class named in the class statement
Base(cls) ==
    CASE cls = "Symbol" -> "object"
      [] cls \in {"Constant", "Variable", "Operator", "SymbolGroup"} -> "Symbol"
      [] OTHER -> "Operator"

\* the class attribute `symbol`, as attribute lookup finds it (None when inherited
\* from Symbol)
ClassSymbol(cls) ==
    CASE cls = "SymbolGroup" -> <<"(">>
      [] cls = "Add" -> <<"+">>
      [] cls = "Subtract" -> <<"-">>
      [] cls = "Multiply" -> <<"*">>
      [] cls = "Divide" -> <<"/">>
      [] cls = "Modulus" -> <<"%">>
      [] cls = "Power" -> <<"^">>
      [] cls = "Sqrt" -> <<"s", "q", "r", "t">>
      [] cls = "Ceil" -> <<"c", "e", "i", "l">>
      [] cls = "Floor" -> <<"f", "l", "o", "o", "r">>
      [] cls = "Equal" -> <<"=">>
      [] cls = "NotEqual" -> <<"!", "=">>
      [] OTHER -> NoneVal

\* the classes whose body assigns symbol_list; the others share their base's list
ListOwners == {"Symbol", "SymbolGroup"} \cup OperatorClasses

ListOwner(cls) == IF cls \in ListOwners THEN cls ELSE "Symbol"

\* the symbol_list every class body assigns
ClassSymbolList(cls) ==
    CASE cls = "Symbol" -> <<>>
      [] cls = "SymbolGroup" -> << <<"(">>, <<")">> >>
      [] cls = "Add" -> << <<"+">>, <<"p", "l", "u", "s">> >>
      [] cls = "Subtract" -> << <<"-">>, <<"m", "i", "n", "u", "s">> >>
      [] cls = "Multiply" ->
            << <<"*">>, <<"U+00D7">>, <<"m", "u", "l", "t", "i", "p", "l", "y">>,
               <<"t", "i", "m", "e", "s">> >>
      [] cls = "Divide" -> << <<"/">>, <<"U+00F7">>, <<"d", "i", "v", "i", "d", "e">> >>
      [] cls = "Modulus" -> << <<"%">>, <<"m", "o", "d">> >>
      [] cls = "Power" -> << <<"^">>, <<"*", "*">>, <<"p", "o", "w", "e", "r">> >>
      [] cls = "Sqrt" -> << <<"s", "q", "r", "t">>, <<"U+221A">> >>
      [] cls = "Ceil" -> << <<"c", "e", "i", "l">>, <<"U+2308">>, <<"U+2309">> >>
      [] cls = "Floor" -> << <<"f", "l", "o", "o", "r">>, <<"U+230A">>, <<"U+230B">> >>
      [] cls = "Equal" ->
            << <<"=">>, <<"e", "q", "u", "a", "l", "s">>, <<"i", "s">>,
               <<"e", "q", "u", "a", "l", " ", "t", "o">> >>
      [] cls = "NotEqual" ->
            << <<"!", "=">>, <<"U+2260">>,
               <<"n", "o", "t", " ", "e", "q", "u", "a", "l", " ", "t", "o">> >>

----------------------------------------------------------------------------
(* Sequence helpers. *)

Range(s) == {s[i] : i \in 1..Len(s)}

RECURSIVE Flatten(_)
Flatten(ss) == IF ss = <<>> THEN <<>> ELSE Head(ss) \o Flatten(Tail(ss))

\* how many times e occurs in s
Count(e, s) == Cardinality({i \in 1..Len(s) : s[i] = e})

----------------------------------------------------------------------------
(* get_subclasses and the registry. *)

\* get_subclasses without the recursion into the subclasses
GetSubclassesDirectOnly(cls) == Subclasses(cls)

RECURSIVE get_subclasses(_)

get_subclasses(cls) ==
    Subclasses(cls) \o
    Flatten([i \in 1..Len(Subclasses(cls)) |->
                IF Subclasses(cls)[i] # "Symbol"
                THEN get_subclasses(Subclasses(cls)[i])
                ELSE <<>>])

\* the filter, keeping one-character symbols only
RegistryKeepsOneChar(cls) ==
    /\ ClassSymbol(cls) # NoneVal
    /\ Len(ClassSymbol(cls)) = 1
    /\ ClassSymbol(cls) \notin {<<"(">>, <<")">>}
    /\ ClassSymbol(cls) \notin {<<" ">>}

\* the filter of the dict comprehension
RegistryKeeps(cls) ==
    /\ ClassSymbol(cls) # NoneVal
    /\ ClassSymbol(cls) # <<>>
    /\ ClassSymbol(cls) \notin {<<"(">>, <<")">>}
    /\ ClassSymbol(cls) \notin {<<" ">>}

\* {cls.symbol: cls for cls in classes if ...}: a later class replaces an earlier
\* one under the same key
RECURSIVE DictOf(_)
DictOf(classes) ==
    IF classes = <<>> THEN <<>>
    ELSE LET n == Len(classes)
             rest == DictOf(SubSeq(classes, 1, n - 1))
             cls == classes[n]
         IN IF RegistryKeeps(cls)
            THEN [k \in DOMAIN rest \cup {ClassSymbol(cls)} |->
                     IF k = ClassSymbol(cls) THEN cls ELSE rest[k]]
            ELSE rest

\* get_subclasses(), with its default argument
AllSubclasses == get_subclasses("Symbol")

BuildAllSymbols == DictOf(AllSubclasses)

----------------------------------------------------------------------------
(* str helpers, as Python computes them. *)

Digits == <<"0", "1", "2", "3", "4", "5", "6", "7", "8", "9">>

\* str(n) of a non-negative int
RECURSIVE StrNat(_)
StrNat(n) == IF n < 10 THEN <<Digits[n + 1]>> ELSE StrNat(n \div 10) \o <<Digits[(n % 10) + 1]>>

\* str(n) of an int
StrInt(n) == IF n < 0 THEN <<"-">> \o StrNat(-n) ELSE StrNat(n)

\* s.rstrip(chars)
RECURSIVE RStrip(_, _)
RStrip(s, chars) ==
    IF s # <<>> /\ s[Len(s)] \in chars THEN RStrip(SubSeq(s, 1, Len(s) - 1), chars) ELSE s

\* s.lstrip() and s.strip(), of whitespace
RECURSIVE LStrip(_)
LStrip(s) == IF s # <<>> /\ s[1] = " " THEN LStrip(Tail(s)) ELSE s

Strip(s) == LStrip(RStrip(s, {" "}))

\* whether s has old at position i
HasAt(s, old, i) == i + Len(old) - 1 <= Len(s) /\ SubSeq(s, i, i + Len(old) - 1) = old

\* s.replace(old, new) for a non-empty old: the leftmost occurrences, left to
\* right, none overlapping, in one pass
RECURSIVE ReplaceFrom(_, _, _, _)
ReplaceFrom(s, old, new, i) ==
    IF i > Len(s) THEN <<>>
    ELSE IF HasAt(s, old, i) THEN new \o ReplaceFrom(s, old, new, i + Len(old))
    ELSE <<s[i]>> \o ReplaceFrom(s, old, new, i + 1)

Replace(s, old, new) == ReplaceFrom(s, old, new, 1)

\* `sub in s` for strs
Contains(s, sub) == \E i \in 1..Len(s) : HasAt(s, sub, i)

----------------------------------------------------------------------------
(* Numbers.  An int is [t |-> "int", n, d |-> 1]; a float is the rational  *)
(* n/d it stands for, in lowest terms with d > 0; exact is FALSE when the   *)
(* float is the rounding of an irrational root.                            *)

NoneNum == [t |-> "None"]

PyInt(k) == [t |-> "int", n |-> k, d |-> 1, exact |-> TRUE]

Abs(k) == IF k < 0 THEN -k ELSE k

RECURSIVE GCD(_, _)
GCD(a, b) == IF b = 0 THEN a ELSE GCD(b, a % b)

\* the number n/d (d # 0) of type t, in lowest terms with a positive denominator
Num(t, n, d, exact) ==
    LET sn == IF d < 0 THEN -n ELSE n
        sd == Abs(d)
        g == GCD(Abs(sn), sd)
    IN [t |-> t, n |-> sn \div g, d |-> sd \div g, exact |-> exact]

Complex == [t |-> "complex"]

Tuple(items) == [t |-> "tuple", items |-> items]

IsNum(v) == v.t \in {"int", "float"}

\* a number that is 0 and no rounding
ExactZero(v) == v.n = 0 /\ v.exact

\* one operand complex, the other a number or complex
IsComplexMix(a, b) ==
    /\ a.t \in {"int", "float", "complex"}
    /\ b.t \in {"int", "float", "complex"}
    /\ "complex" \in {a.t, b.t}

\* the type of the result of an arithmetic operator on two numbers
ResultType(a, b) == IF a.t = "int" /\ b.t = "int" THEN "int" ELSE "float"

\* the result of a primitive operation: a value or an exception
Val(v) == [raised |-> FALSE, exc |-> "", v |-> v]

Exc(exc) == [raised |-> TRUE, exc |-> exc, v |-> NoneNum]

RECURSIVE IPow(_, _)
IPow(base, e) == IF e = 0 THEN 1 ELSE base * IPow(base, e - 1)

\* the largest r >= from with r^q <= n
RECURSIVE IRootFrom(_, _, _)
IRootFrom(n, q, from) == IF IPow(from + 1, q) > n THEN from ELSE IRootFrom(n, q, from + 1)

IRoot(n, q) == IRootFrom(n, q, 0)

RECURSIVE Repeat(_, _)
Repeat(items, k) == IF k <= 0 THEN <<>> ELSE items \o Repeat(items, k - 1)

\* a + b
PyAdd(a, b) ==
    IF IsNum(a) /\ IsNum(b)
    THEN Val(Num(ResultType(a, b), a.n * b.d + b.n * a.d, a.d * b.d, a.exact /\ b.exact))
    ELSE IF a.t = "tuple" /\ b.t = "tuple" THEN Val(Tuple(a.items \o b.items))
    ELSE IF IsComplexMix(a, b) THEN Val(Complex)
    ELSE Exc("TypeError")

\* a - b
PySub(a, b) ==
    IF IsNum(a) /\ IsNum(b)
    THEN Val(Num(ResultType(a, b), a.n * b.d - b.n * a.d, a.d * b.d, a.exact /\ b.exact))
    ELSE IF IsComplexMix(a, b) THEN Val(Complex)
    ELSE Exc("TypeError")

\* a * b
PyMul(a, b) ==
    IF IsNum(a) /\ IsNum(b)
    THEN Val(Num(ResultType(a, b), a.n * b.n, a.d * b.d,
                 (a.exact /\ b.exact) \/ ExactZero(a) \/ ExactZero(b)))
    ELSE IF a.t = "tuple" /\ b.t = "int" THEN Val(Tuple(Repeat(a.items, b.n)))
    ELSE IF a.t = "int" /\ b.t = "tuple" THEN Val(Tuple(Repeat(b.items, a.n)))
    ELSE IF IsComplexMix(a, b) THEN Val(Complex)
    ELSE Exc("TypeError")

\* b == 0
PyEqZero(b) == IsNum(b) /\ b.n = 0

\* a / b
PyTrueDiv(a, b) ==
    IF IsNum(a) /\ IsNum(b)
    THEN IF b.n = 0 THEN Exc("ZeroDivisionError")
         ELSE Val(Num("float", a.n * b.d, a.d * b.n, (a.exact /\ b.exact) \/ ExactZero(a)))
    ELSE IF IsComplexMix(a, b) THEN Val(Complex)
    ELSE Exc("TypeError")

\* a // b of two numbers, b # 0, as an integer
FloorQuot(a, b) ==
    LET q == Num("float", a.n * b.d, a.d * b.n, TRUE) IN q.n \div q.d

\* a % b: the remainder has the sign of b
PyMod(a, b) ==
    IF IsNum(a) /\ IsNum(b)
    THEN IF b.n = 0 THEN Exc("ZeroDivisionError")
         ELSE Val(Num(ResultType(a, b),
                      a.n * b.d - FloorQuot(a, b) * b.n * a.d, a.d * b.d,
                      (a.exact /\ b.exact) \/ ExactZero(a)))
    ELSE Exc("TypeError")

\* a ** k for a number a # 0 or k >= 0, and an integer k
IntPow(t, a, k, exact) ==
    IF k >= 0 THEN Num(t, IPow(a.n, k), IPow(a.d, k), exact)
    ELSE Num(t, IPow(a.d, -k), IPow(a.n, -k), exact)

\* a ** b for a > 0 and a float b that is no integer: the b.d-th root of
\* a ** b.n, exact when numerator and denominator are perfect powers and else
\* rounded down to a multiple of 1/FloatGrid
FracPow(a, b) ==
    LET p == IntPow("float", a, b.n, TRUE)
        rn == IRoot(p.n, b.d)
        rd == IRoot(p.d, b.d)
    IN IF IPow(rn, b.d) = p.n /\ IPow(rd, b.d) = p.d
       THEN Num("float", rn, rd, a.exact /\ (b.exact \/ a.n = a.d))
       ELSE Num("float", IRoot((p.n * IPow(FloatGrid, b.d)) \div p.d, b.d), FloatGrid, FALSE)

\* a ** b
PyPow(a, b) ==
    IF IsNum(a) /\ IsNum(b)
    THEN IF a.t = "int" /\ b.t = "int" /\ b.n >= 0 THEN Val(IntPow("int", a, b.n, TRUE))
         ELSE IF a.n = 0
              THEN IF b.n < 0 THEN Exc("ZeroDivisionError")
                   ELSE IF b.n = 0 THEN Val(Num("float", 1, 1, TRUE))
                   ELSE Val(Num("float", 0, 1, TRUE))
         ELSE IF b.d = 1 /\ b.exact THEN Val(IntPow("float", a, b.n, a.exact))
         ELSE IF a.n < 0 THEN Val(Complex)
         ELSE Val(FracPow(a, b))
    ELSE IF IsComplexMix(a, b) THEN Val(Complex)
    ELSE Exc("TypeError")

\* a < 0
PyLtZero(a) == IF IsNum(a) THEN Val(a.n < 0) ELSE Exc("TypeError")

\* math.ceil(a) and math.floor(a)
PyFloor(a) == IF IsNum(a) THEN Val(PyInt(a.n \div a.d)) ELSE Exc("TypeError")

\* a float rounded down has its ceiling one above its floor
PyCeil(a) ==
    IF ~IsNum(a) THEN Exc("TypeError")
    ELSE IF a.exact THEN Val(PyInt(-((-a.n) \div a.d)))
    ELSE Val(PyInt((a.n \div a.d) + 1))

\* the float literal 0.5
Half == Num("float", 1, 2, TRUE)

----------------------------------------------------------------------------
(* Construction.  A constructor takes the alias lists sl and the heap hp   *)
(* and gives [sl, hp, raised, exc, id]: the lists and heap it leaves, and  *)
(* either the exception it raised or the heap index of the new instance.   *)

Raised(sl, hp, exc) == [sl |-> sl, hp |-> hp, raised |-> TRUE, exc |-> exc, id |-> 0]

Returned(sl, hp, inst) ==
    [sl |-> sl, hp |-> Append(hp, inst), raised |-> FALSE, exc |-> "", id |-> Len(hp) + 1]

\* the fields of an instance; an attribute the constructor does not set reads as
\* the class attribute (symbol, name) or is absent (0, <<>>, NoneNum, NoneVal)
Instance(cls, symbol, name, base_name, value, a, b, symbols) ==
    [cls |-> cls, symbol |-> symbol, name |-> name, base_name |-> base_name,
     value |-> value, a |-> a, b |-> b, symbols |-> symbols]

\* symbol_list.append(tok) on the list cls reads
AppendTo(sl, cls, tok) == [sl EXCEPT ![ListOwner(cls)] = Append(@, tok)]

\* symbol_list.extend(toks) on the list cls reads
ExtendWith(sl, cls, toks) == [sl EXCEPT ![ListOwner(cls)] = @ \o toks]

\* `tok in self.symbol_list`
InList(sl, cls, tok) == tok \in Range(sl[ListOwner(cls)])

\* Symbol.__init__, for an instance of cls whose self.symbol reads symbol
SymbolInit(sl, cls, symbol) ==
    IF symbol = NoneVal THEN [sl |-> sl, raised |-> TRUE]
    ELSE IF ~InList(sl, cls, symbol) THEN [sl |-> AppendTo(sl, cls, symbol), raised |-> FALSE]
    ELSE [sl |-> sl, raised |-> FALSE]

\* Symbol()
NewSymbol(sl, hp) ==
    LET r == SymbolInit(sl, "Symbol", ClassSymbol("Symbol"))
    IN IF r.raised THEN Raised(r.sl, hp, "ValueError")
       ELSE Returned(r.sl, hp,
                Instance("Symbol", ClassSymbol("Symbol"), NoneVal, NoneVal, NoneNum, 0, 0, <<>>))

\* Constant(value, symbol, symbol_list); symbol and aliases are NoneVal when not given
NewConstant(sl, hp, value, symbol, aliases) ==
    LET r == SymbolInit(sl, "Constant", ClassSymbol("Constant"))
    IN IF r.raised THEN Raised(r.sl, hp, "ValueError")
       ELSE LET sym == IF symbol = NoneVal THEN StrInt(value) ELSE symbol
                sl1 == IF ~InList(r.sl, "Constant", sym)
                       THEN AppendTo(r.sl, "Constant", sym) ELSE r.sl
                sl2 == IF aliases # NoneVal THEN ExtendWith(sl1, "Constant", aliases) ELSE sl1
            IN Returned(sl2, hp,
                   Instance("Constant", sym, NoneVal, NoneVal, PyInt(value), 0, 0, <<>>))

\* Variable(name)
NewVariable(sl, hp, name) ==
    LET base_name == RStrip(RStrip(name, Range(Digits)), {"_"})
        sl1 == AppendTo(sl, "Variable", name)
        r == SymbolInit(sl1, "Variable", name)
    IN IF r.raised THEN Raised(r.sl, hp, "ValueError")
       ELSE Returned(r.sl, hp,
                Instance("Variable", name, name, base_name, NoneNum, 0, 0, <<>>))

\* Operator.__init__, reached as cls(a, b); b is 0 for None
OperatorInit(sl, hp, cls, a, b) ==
    LET r == SymbolInit(sl, cls, ClassSymbol(cls))
    IN IF r.raised THEN Raised(r.sl, hp, "ValueError")
       ELSE Returned(r.sl, hp,
                Instance(cls, ClassSymbol(cls), NoneVal, NoneVal, NoneNum, a, b, <<>>))

\* Add(a, b) .. Power(a, b), Equal(a, b), NotEqual(a, b)
NewBinary(sl, hp, cls, a, b) == OperatorInit(sl, hp, cls, a, b)

\* Sqrt(a, b) (b is dropped), Ceil(a), Floor(a)
NewUnary(sl, hp, cls, a) == OperatorInit(sl, hp, cls, a, 0)

\* SymbolGroup(symbols..)
NewSymbolGroup(sl, hp, symbols) ==
    LET r == SymbolInit(sl, "SymbolGroup", ClassSymbol("SymbolGroup"))
    IN IF r.raised THEN Raised(r.sl, hp, "ValueError")
       ELSE Returned(
                ExtendWith(r.sl, "SymbolGroup", [i \in 1..Len(symbols) |-> hp[symbols[i]].symbol]),
                hp,
                Instance("SymbolGroup", ClassSymbol("SymbolGroup"), NoneVal, NoneVal, NoneNum,
                         0, 0, symbols))

----------------------------------------------------------------------------
(* Evaluation: calling an instance.  kw is the dict of keyword arguments, a *)
(* function from the bound names to PyInt values; path is the way from the  *)
(* instance the driver called down to this one.  The result is             *)
(* [raised, exc, at, v, trace]: the exception and the path of the node     *)
(* that raised it, or the value returned; and the trace, the __call__s     *)
(* entered in order, each with the kwargs it was given.                    *)

Entered(path, kw) == <<[path |-> path, kw |-> kw]>>

\* the outcome of a __call__ from the outcome r of its last expression
Outcome(r, path, trace) ==
    [raised |-> r.raised, exc |-> r.exc, at |-> IF r.raised THEN path ELSE <<>>,
     v |-> r.v, trace |-> trace]

\* Symbol.__call__
SymbolCall(path, kw) == Outcome(Exc("NotImplementedError"), path, Entered(path, kw))

\* Constant.__call__
ConstantCall(inst, path, kw) == Outcome(Val(inst.value), path, Entered(path, kw))

\* Variable.__call__: kwargs.get(self.name, None)
VariableCall(inst, path, kw) ==
    Outcome(Val(IF inst.name \in DOMAIN kw THEN kw[inst.name] ELSE NoneNum),
            path, Entered(path, kw))

RECURSIVE Eval(_, _, _, _)

\* the two operand calls in the other order
OperandsRightFirst(hp, inst, path, kw) ==
    LET rb == Eval(hp, inst.b, Append(path, "b"), kw)
        ra == Eval(hp, inst.a, Append(path, "a"), kw)
    IN IF rb.raised THEN [rb EXCEPT !.trace = Entered(path, kw) \o rb.trace]
       ELSE IF ra.raised
            THEN [ra EXCEPT !.trace = Entered(path, kw) \o rb.trace \o ra.trace]
       ELSE [raised |-> FALSE, exc |-> "", at |-> <<>>,
             v |-> Tuple(<<ra.v, rb.v>>),
             trace |-> Entered(path, kw) \o rb.trace \o ra.trace]

\* the two operand calls, the second given no keyword arguments
OperandsDropKwargs(hp, inst, path, kw) ==
    LET ra == Eval(hp, inst.a, Append(path, "a"), kw)
        rb == Eval(hp, inst.b, Append(path, "b"), <<>>)
    IN IF ra.raised THEN [ra EXCEPT !.trace = Entered(path, kw) \o ra.trace]
       ELSE IF rb.raised
            THEN [rb EXCEPT !.trace = Entered(path, kw) \o ra.trace \o rb.trace]
       ELSE [raised |-> FALSE, exc |-> "", at |-> <<>>,
             v |-> Tuple(<<ra.v, rb.v>>),
             trace |-> Entered(path, kw) \o ra.trace \o rb.trace]

\* a_val = self.a(..); b_val = self.b(..);
\* return a_val, b_val: the body of Operator.__call__, Equal.__call__ and
\* NotEqual.__call__.  An exception of the first call ends the body.
Operands(hp, inst, path, kw) ==
    LET ra == Eval(hp, inst.a, Append(path, "a"), kw)
        rb == Eval(hp, inst.b, Append(path, "b"), kw)
    IN IF ra.raised THEN [ra EXCEPT !.trace = Entered(path, kw) \o ra.trace]
       ELSE IF rb.raised
            THEN [rb EXCEPT !.trace = Entered(path, kw) \o ra.trace \o rb.trace]
       ELSE [raised |-> FALSE, exc |-> "", at |-> <<>>,
             v |-> Tuple(<<ra.v, rb.v>>),
             trace |-> Entered(path, kw) \o ra.trace \o rb.trace]

\* a_val = self.a(..): the first line of Sqrt, Ceil and Floor
Operand(hp, inst, path, kw) ==
    LET ra == Eval(hp, inst.a, Append(path, "a"), kw)
    IN [ra EXCEPT !.trace = Entered(path, kw) \o ra.trace]

\* Divide without its test of b
DivideNoTest(a, b) == PyTrueDiv(a, b)

\* Divide.__call__ after the operands: if b == 0: raise ValueError; return a / b
DivideOf(a, b) == IF PyEqZero(b) THEN Exc("ValueError") ELSE PyTrueDiv(a, b)

\* Sqrt.__call__ after the operand: if a_val < 0: raise ValueError; return a_val ** 0.5
SqrtOf(a) ==
    LET lt == PyLtZero(a)
    IN IF lt.raised THEN Exc(lt.exc)
       ELSE IF lt.v THEN Exc("ValueError")
       ELSE PyPow(a, Half)

\* the return expression of a binary operator's __call__
Combine(cls, a, b) ==
    CASE cls = "Add" -> PyAdd(a, b)
      [] cls = "Subtract" -> PySub(a, b)
      [] cls = "Multiply" -> PyMul(a, b)
      [] cls = "Divide" -> DivideOf(a, b)
      [] cls = "Modulus" -> PyMod(a, b)
      [] cls = "Power" -> PyPow(a, b)

\* the return expression of a unary operator's __call__
Apply(cls, a) ==
    CASE cls = "Sqrt" -> SqrtOf(a)
      [] cls = "Ceil" -> PyCeil(a)
      [] cls = "Floor" -> PyFloor(a)

\* calling hp[id] with the keyword arguments kw
Eval(hp, id, path, kw) ==
    LET inst == hp[id]
    IN CASE inst.cls \in {"Symbol", "SymbolGroup"} -> SymbolCall(path, kw)
         [] inst.cls = "Constant" -> ConstantCall(inst, path, kw)
         [] inst.cls = "Variable" -> VariableCall(inst, path, kw)
         [] inst.cls \in {"Operator", "Equal", "NotEqual"} -> Operands(hp, inst, path, kw)
         [] inst.cls \in UnaryClasses ->
               LET r == Operand(hp, inst, path, kw)
               IN IF r.raised THEN r ELSE Outcome(Apply(inst.cls, r.v), path, r.trace)
         [] OTHER ->
               LET r == Operands(hp, inst, path, kw)
               IN IF r.raised THEN r
                  ELSE Outcome(Combine(inst.cls, r.v.items[1], r.v.items[2]), path, r.trace)

----------------------------------------------------------------------------
(* clean_string. *)

\* the body of the for loop of Symbol.clean_string, for one symbol
CleanOne(s, symbol) ==
    Replace(Replace(Replace(s, <<" ">> \o symbol \o <<" ">>, symbol),
                    symbol \o <<" ">>, symbol),
            <<" ">> \o symbol, symbol)

\* the for loop of Symbol.clean_string, over the symbols from the i-th on
RECURSIVE CleanLoop(_, _, _)
CleanLoop(s, symbols, i) ==
    IF i > Len(symbols) THEN s ELSE CleanLoop(CleanOne(s, symbols[i]), symbols, i + 1)

\* while '  ' in s: s = s.replace('  ', ' ')
RECURSIVE Collapse(_)
Collapse(s) == IF Contains(s, <<" ", " ">>) THEN Collapse(Replace(s, <<" ", " ">>, <<" ">>)) ELSE s

\* Symbol.clean_string, called on the class cls
SymbolCleanString(sl, cls, s) == Collapse(CleanLoop(Strip(s), sl[ListOwner(cls)], 1))

\* Multiply.clean_string: the str that s.replace(" ", cls.symbol) makes is dropped
MultiplyCleanString(sl, cls, s) ==
    LET s1 == SymbolCleanString(sl, cls, s)
        dropped == Replace(s1, <<" ">>, ClassSymbol(cls))
    IN s1

\* cls.clean_string(s)
clean_string(sl, cls, s) ==
    IF cls = "Multiply" THEN MultiplyCleanString(sl, cls, s) ELSE SymbolCleanString(sl, cls, s)

----------------------------------------------------------------------------
(* The driver: what a program that imports symbols.py can call. *)

\* the variable names the driver uses
Names == {<<"x">>, <<"y", "1">>}

\* the values the driver binds and wraps
Vals == (-MaxVal)..MaxVal

\* the optional arguments handed to Constant: none, or a token and an alias list
GivenTokens == {<<NoneVal, NoneVal>>, << <<"k">>, << <<"k">>, <<"c">> >> >>}

\* the argument lists handed to SymbolGroup: up to two instances of the heap
GroupArgs(hp) ==
    {<<>>} \cup {<<i>> : i \in 1..Len(hp)} \cup {<<i, j>> : i, j \in 1..Len(hp)}

\* the record of a call: what was called, with what, and how it ended
Call(op, args, raised, exc, ret) ==
    [op |-> op, args |-> args, raised |-> raised, exc |-> exc, ret |-> ret]

\* the state a constructor call leaves
Constructed(op, args, r) ==
    /\ symbol_list' = r.sl
    /\ heap' = r.hp
    /\ call' = Call(op, args, r.raised, r.exc, r.id)
    /\ UNCHANGED ALL_SYMBOLS

\* the state after `from symbols import *`
Init ==
    /\ symbol_list = [cls \in ListOwners |-> ClassSymbolList(cls)]
    /\ ALL_SYMBOLS = BuildAllSymbols
    /\ heap = <<>>
    /\ call = Call("import", <<>>, FALSE, "", 0)

DoSymbol ==
    /\ Len(heap) < MaxInst
    /\ Constructed("Symbol", <<>>, NewSymbol(symbol_list, heap))

DoConstant ==
    /\ Len(heap) < MaxInst
    /\ \E value \in Vals, given \in GivenTokens :
          Constructed("Constant", <<value, given[1], given[2]>>,
                      NewConstant(symbol_list, heap, value, given[1], given[2]))

DoVariable ==
    /\ Len(heap) < MaxInst
    /\ \E name \in Names :
          Constructed("Variable", <<name>>, NewVariable(symbol_list, heap, name))

DoBinary ==
    /\ Len(heap) < MaxInst
    /\ \E cls \in BinaryClasses, a, b \in 1..Len(heap) :
          Constructed(cls, <<a, b>>, NewBinary(symbol_list, heap, cls, a, b))

DoUnary ==
    /\ Len(heap) < MaxInst
    /\ \E cls \in UnaryClasses, a \in 1..Len(heap) :
          Constructed(cls, <<a>>, NewUnary(symbol_list, heap, cls, a))

DoSymbolGroup ==
    /\ Len(heap) < MaxInst
    /\ \E symbols \in GroupArgs(heap) :
          Constructed("SymbolGroup", symbols, NewSymbolGroup(symbol_list, heap, symbols))

Next ==
    \/ DoSymbol
    \/ DoConstant
    \/ DoVariable
    \/ DoBinary
    \/ DoUnary
    \/ DoSymbolGroup

Spec == Init /\ [][Next]_vars

----------------------------------------------------------------------------
(* The driver building one expression and calling it, as parser.py's main  *)
(* does.  An expression is <<"Variable", name>>, <<cls, operand>> or       *)
(* <<cls, left, right>>.                                                   *)

Leaves == {<<"Variable", name>> : name \in Names}

\* the expressions over operands from sub
Over(sub) ==
    {<<cls, l, r>> : cls \in BinaryClasses, l \in sub, r \in sub}
    \cup {<<cls, l>> : cls \in UnaryClasses, l \in sub}

\* a variable, an operator of variables, an operator of those
Expressions == Leaves \cup Over(Leaves) \cup Over(Leaves \cup Over(Leaves))

\* the constructor calls of the expression e, operands first and left to right,
\* as Python evaluates nested constructor calls
RECURSIVE Build(_, _, _)
Build(e, sl, hp) ==
    IF e[1] = "Variable" THEN NewVariable(sl, hp, e[2])
    ELSE IF Len(e) = 2
         THEN LET l == Build(e[2], sl, hp) IN NewUnary(l.sl, l.hp, e[1], l.id)
    ELSE LET l == Build(e[2], sl, hp)
             r == Build(e[3], l.sl, l.hp)
         IN NewBinary(r.sl, r.hp, e[1], l.id, r.id)

\* the keyword arguments of a call: some of the names, each bound to an int
Kwargs == UNION {[D -> {PyInt(v) : v \in Vals}] : D \in SUBSET Names}

\* the state after import and the construction of one expression
InitEval ==
    \E e \in Expressions :
        LET w == Build(e, [cls \in ListOwners |-> ClassSymbolList(cls)], <<>>)
        IN /\ symbol_list = w.sl
           /\ ALL_SYMBOLS = BuildAllSymbols
           /\ heap = w.hp
           /\ call = Call(e[1], Tail(e), w.raised, w.exc, w.id)

\* the driver calls the expression, the last instance constructed
Evaluate ==
    /\ call.op # "__call__"
    /\ \E kw \in Kwargs :
          call' = Call("__call__", <<Len(heap), kw>>, FALSE, "",
                       Eval(heap, Len(heap), <<>>, kw))
    /\ UNCHANGED <<symbol_list, ALL_SYMBOLS, heap>>

\* the driver makes the same call again
EvaluateAgain ==
    /\ call.op = "__call__"
    /\ call' = Call("__call__", call.args, FALSE, "",
                    Eval(heap, call.args[1], <<>>, call.args[2]))
    /\ UNCHANGED <<symbol_list, ALL_SYMBOLS, heap>>

NextEval ==
    \/ Evaluate
    \/ EvaluateAgain

SpecEval == InitEval /\ [][NextEval]_vars

----------------------------------------------------------------------------
(* The driver normalizing one text. *)

\* the characters of the texts
Alphabet == {" ", "+", "*", "2", "a"}

Texts == UNION {[1..n -> Alphabet] : n \in 0..MaxLen}

\* Add.clean_string(s), which is Symbol.clean_string
CleanAdd ==
    /\ call.op = "import"
    /\ \E s \in Texts :
          call' = Call("clean_string", <<"Add", s>>, FALSE, "",
                       clean_string(symbol_list, "Add", s))
    /\ UNCHANGED <<symbol_list, ALL_SYMBOLS, heap>>

\* Multiply.clean_string(s)
CleanMultiply ==
    /\ call.op = "import"
    /\ \E s \in Texts :
          call' = Call("clean_string", <<"Multiply", s>>, FALSE, "",
                       clean_string(symbol_list, "Multiply", s))
    /\ UNCHANGED <<symbol_list, ALL_SYMBOLS, heap>>

NextClean ==
    \/ CleanAdd
    \/ CleanMultiply

SpecClean == Init /\ [][NextClean]_vars

----------------------------------------------------------------------------
(* The claims about construction and the registry, checked under Spec. *)

\* the last call was a constructor call that returned an instance
ConstructedOk ==
    /\ call.op \in Classes
    /\ ~call.raised

\* C1: Constant(v) with no explicit token succeeds, the instance's token is the
\* decimal representation of v, and calling it returns v whatever the bindings.
C1_ConstantConstructs ==
    (call.op = "Constant" /\ call.args[2] = NoneVal) =>
        /\ ~call.raised
        /\ heap[call.ret].symbol = StrInt(call.args[1])
        /\ \A kw \in Kwargs :
              LET r == Eval(heap, call.ret, <<>>, kw)
              IN ~r.raised /\ r.v = PyInt(call.args[1])

\* the classes that have cls among their bases, at any depth
RECURSIVE InheritsFrom(_, _)
InheritsFrom(cls, anc) ==
    /\ cls # "object"
    /\ Base(cls) = anc \/ InheritsFrom(Base(cls), anc)

Specializations == {cls \in Classes : InheritsFrom(cls, "Symbol")}

\* C5: get_subclasses returns every transitive specialization of Symbol exactly
\* once, and the registry has exactly one entry for each canonical token a
\* specialization declares, mapped to the declaring type, the group's "(" left
\* out, and never a key "(", ")" or "".
C5_RegistryCanonical ==
    /\ \A cls \in Specializations : Count(cls, AllSubclasses) = 1
    /\ Range(AllSubclasses) = Specializations
    /\ DOMAIN ALL_SYMBOLS =
          {ClassSymbol(cls) : cls \in {c \in Specializations : ClassSymbol(c) # NoneVal}}
          \ {<<"(">>, <<")">>, <<>>}
    /\ \A cls \in Specializations :
          ClassSymbol(cls) \in DOMAIN ALL_SYMBOLS => ALL_SYMBOLS[ClassSymbol(cls)] = cls
    /\ DOMAIN ALL_SYMBOLS \cap {<<"(">>, <<")">>, <<>>} = {}

\* instances of several types exist and the registry still holds the operators
C5_Witness ==
    /\ Len(heap) = MaxInst
    /\ heap[MaxInst].cls = "SymbolGroup"
    /\ Cardinality(DOMAIN ALL_SYMBOLS) = Cardinality(OperatorClasses)
    /\ ALL_SYMBOLS[<<"s", "q", "r", "t">>] = "Sqrt"

\* C6 as claimed: every entry of every operator type's alias list is a key of the
\* registry and looks up the type.
C6_RegistryHasAliases ==
    \A cls \in OperatorClasses :
        \A s \in Range(symbol_list[cls]) :
            s \in DOMAIN ALL_SYMBOLS /\ ALL_SYMBOLS[s] = cls

\* C6 as amended: of every operator type's alias list only the canonical token
\* is a key of the registry, and it looks up the type.
C6_RegistryCanonicalOnly ==
    \A cls \in OperatorClasses :
        \A s \in Range(symbol_list[cls]) :
            IF s = ClassSymbol(cls)
            THEN s \in DOMAIN ALL_SYMBOLS /\ ALL_SYMBOLS[s] = cls
            ELSE s \notin DOMAIN ALL_SYMBOLS

\* a Modulus exists, "%" looks it up and "mod" is no key
C6_Witness ==
    /\ \E i \in 1..Len(heap) : heap[i].cls = "Modulus"
    /\ <<"m", "o", "d">> \in Range(symbol_list["Modulus"])
    /\ <<"m", "o", "d">> \notin DOMAIN ALL_SYMBOLS
    /\ ALL_SYMBOLS[<<"%">>] = "Modulus"

\* C7: after any constructions every alias list holds each token at most once,
\* and the list of the type just constructed holds the instance's token once.
C7_AliasListsNoDuplicates ==
    /\ \A cls \in ListOwners :
          \A tok \in Range(symbol_list[cls]) : Count(tok, symbol_list[cls]) = 1
    /\ ConstructedOk =>
          Count(heap[call.ret].symbol, symbol_list[ListOwner(call.op)]) = 1

----------------------------------------------------------------------------
(* The claims about evaluation, checked under SpecEval. *)

\* the last call was a call of the expression
Called == call.op = "__call__"

\* the instance the driver called, and the keyword arguments it gave
Root == heap[call.args[1]]

CallKwargs == call.args[2]

\* what the operands of the called instance give when called with the same
\* keyword arguments
LeftOutcome == Eval(heap, Root.a, <<"a">>, CallKwargs)

RightOutcome == Eval(heap, Root.b, <<"b">>, CallKwargs)

\* the expression holds Variables and arithmetic operators only
Arithmetic == \A i \in 1..Len(heap) : heap[i].cls \in ArithClasses \cup {"Variable"}

\* the instance at the end of path, from the called instance down
RECURSIVE NodeAt(_, _)
NodeAt(id, path) ==
    IF path = <<>> THEN heap[id]
    ELSE NodeAt(IF Head(path) = "a" THEN heap[id].a ELSE heap[id].b, Tail(path))

\* C2: calling an expression of Variables and arithmetic operators returns a
\* number or fails with the ValueError of a Divide or of a Sqrt, and nothing else.
C2_EvaluationTotal ==
    (Called /\ Arithmetic) =>
        \/ ~call.ret.raised /\ IsNum(call.ret.v)
        \/ /\ call.ret.raised
           /\ call.ret.exc = "ValueError"
           /\ NodeAt(call.args[1], call.ret.at).cls \in {"Divide", "Sqrt"}

\* C3: a Divide whose operands give the numbers a and b returns the float a/b
\* when b is not 0, and raises its ValueError, returning nothing, when b is 0.
C3_DivideQuotient ==
    (/\ Called
     /\ Root.cls = "Divide"
     /\ ~LeftOutcome.raised /\ IsNum(LeftOutcome.v)
     /\ ~RightOutcome.raised /\ IsNum(RightOutcome.v)) =>
        LET a == LeftOutcome.v
            b == RightOutcome.v
            r == call.ret
        IN IF b.n # 0
           THEN /\ ~r.raised
                /\ r.v.t = "float"
                /\ r.v.n * (a.d * b.n) = r.v.d * (a.n * b.d)
           ELSE /\ r.raised
                /\ r.exc = "ValueError"
                /\ r.at = <<>>
                /\ r.v = NoneNum

\* a Divide of an operator's result gave a float that is no integer
C3_Witness ==
    /\ Called
    /\ Root.cls = "Divide"
    /\ heap[Root.b].cls = "Add"
    /\ ~call.ret.raised
    /\ call.ret.v.t = "float"
    /\ call.ret.v.d > 1

\* the paths of the trace that start with the operand named side
Below(trace, side) ==
    {i \in 1..Len(trace) : trace[i].path # <<>> /\ Head(trace[i].path) = side}

\* C8: a binary operator calls its left operand before its right one, and when
\* the left call raises, the right operand is not called and the exception that
\* reaches the caller is the left one's.
C8_LeftBeforeRight ==
    (Called /\ Root.cls \in BinaryClasses) =>
        LET r == call.ret
        IN /\ Below(r.trace, "a") # {}
           /\ \A i \in Below(r.trace, "a"), j \in Below(r.trace, "b") : i < j
           /\ LeftOutcome.raised =>
                 /\ r.raised
                 /\ r.exc = LeftOutcome.exc
                 /\ r.at = LeftOutcome.at
                 /\ Below(r.trace, "b") = {}
           /\ ~LeftOutcome.raised => Below(r.trace, "b") # {}

\* the left operand raised, the right one would have raised something else
C8_Witness ==
    /\ Called
    /\ Root.cls \in BinaryClasses
    /\ LeftOutcome.raised
    /\ RightOutcome.raised
    /\ LeftOutcome.exc # RightOutcome.exc
    /\ call.ret.exc = LeftOutcome.exc

\* C9: a call of an expression leaves the alias lists, the registry and the
\* instances as they were, every __call__ below it is given the keyword
\* arguments the driver gave, and the same call made again ends the same way.
C9_EvaluationPure ==
    [][(call'.op = "__call__") =>
          /\ symbol_list' = symbol_list
          /\ ALL_SYMBOLS' = ALL_SYMBOLS
          /\ heap' = heap
          /\ \A i \in 1..Len(call'.ret.trace) : call'.ret.trace[i].kw = call'.args[2]
          /\ (call.op = "__call__" /\ call'.args = call.args) => call'.ret = call.ret]_vars

\* a call that raised below the called instance, with a name bound
C9_Witness ==
    /\ Called
    /\ DOMAIN CallKwargs # {}
    /\ call.ret.raised
    /\ call.ret.at # <<>>
    /\ \E i \in 1..Len(call.ret.trace) : Len(call.ret.trace[i].path) > 1

----------------------------------------------------------------------------
(* The claims about clean_string, checked under SpecClean. *)

Cleaned(cls) == call.op = "clean_string" /\ call.args[1] = cls

\* s without its spaces
RECURSIVE Squeeze(_)
Squeeze(s) ==
    IF s = <<>> THEN <<>>
    ELSE IF Head(s) = " " THEN Squeeze(Tail(s))
    ELSE <<Head(s)>> \o Squeeze(Tail(s))

\* s is: spaces, an operand, spaces, "+", spaces, an operand, spaces; an operand
\* is a run of characters other than the space and "+"
PlusForm(s) ==
    \E i \in 1..Len(s) :
        /\ s[i] = "+"
        /\ Count("+", s) = 1
        /\ LET left == Strip(SubSeq(s, 1, i - 1))
               right == Strip(SubSeq(s, i + 1, Len(s)))
           IN /\ left # <<>> /\ " " \notin Range(left)
              /\ right # <<>> /\ " " \notin Range(right)

\* C4: Add.clean_string of a text of the form operand + operand, with any
\* spaces around the "+" and around the text, is operand, "+", operand with no
\* space left.
C4_AddSpacingRemoved ==
    (Cleaned("Add") /\ PlusForm(call.args[2])) => call.ret = Squeeze(call.args[2])

\* C10: Multiply.clean_string gives what Symbol.clean_string gives with every
\* space left replaced by "*", so no space is left.
C10_ImplicitMultiplication ==
    Cleaned("Multiply") =>
        /\ call.ret =
              Replace(SymbolCleanString(symbol_list, "Multiply", call.args[2]),
                      <<" ">>, <<"*">>)
        /\ " " \notin Range(call.ret)

=============================================================================
